---- MODULE Spec2Model ----
(***************************************************************************)
(* Model of the sensor lifecycle state machine (backend/sensors/base.py),  *)
(* the polling / recovery orchestrator (backend/sensors/sensor_manager.py) *)
(* and the part of the scenario generator the orchestrator uses            *)
(* (backend/services/simulation_controller.py).                            *)
(*                                                                         *)
(* Threads: one external caller (the request layer) and the polling        *)
(* threads the manager spawns.  A caller's operation is a sequence of      *)
(* steps split where another thread can observe or block it: the lock      *)
(* acquisition, the join on the polling thread, the nested stop_all() of   *)
(* start_simulation(), and the window between `self.running = True` and    *)
(* the start of the polling thread.                                        *)
(***************************************************************************)
EXTENDS Integers, FiniteSets, Sequences, TLC

\* ---------------------------------------------------------------- bounds
MaxWorkers == 2
MaxErrorCount == 4
MaxCalls == 3
MaxFaults == 1
\* the last tick of the wall clock
MaxClock == 13

\* ------------------------------------------------------- program constants
\* seconds stop_all() waits in join() for the polling thread
THREAD_STOP_TIMEOUT == 5
HEALTH_ERROR_PENALTY == 10
HEALTH_ERROR_MAX_PENALTY == 30
\* SensorManager.__init__: config.get("polling_interval", 5.0), in seconds
DefaultPollingInterval == 5

Channels == {"camera", "microphone", "air_quality"}
\* the thread of the request layer that calls the manager
ApiThread == -1
Callers == {ApiThread}
Workers == 1..MaxWorkers
NoThread == 0

\* SensorStatus: the enum's values, which is what get_status() reports
SensorStatus == {"inactive", "available", "active", "error", "unavailable", "mock_mode"}
ManagerStatus == {"stopped", "starting", "running", "stopping", "error"}
SimulationScenario == {"calm", "stress", "dynamic", "custom"}
\* scenario names a caller may pass to start_simulation()
ScenarioInputs == {"calm", "dynamic", "bogus"}
\* values a caller may pass as max_retries to update_config()
MaxRetriesInputs == {-1, 0, 2}

\* the keys update_config() applies
RecognizedKeys == {"polling_interval", "auto_recover", "max_retries"}
\* keys a caller may pass to update_config(); "auto_start" is a key of the
\* constructor's config that update_config() does not apply
ConfigKeys == RecognizedKeys \cup {"auto_start"}

\* the dictionaries a caller may pass to update_config(): the keys present
\* and the values of the recognized ones (an absent key has one, unused,
\* value).  These leave the polling interval alone.
ConfigInputs ==
    {c \in [keys : SUBSET {"auto_recover", "max_retries"}, polling_interval : {10},
            auto_recover : BOOLEAN, max_retries : MaxRetriesInputs,
            invalid : {{}}] :
        /\ "auto_recover" \notin c.keys => c.auto_recover = TRUE
        /\ "max_retries" \notin c.keys => c.max_retries = 0}

\* dictionaries with any of the keys, each with one value that differs from
\* the constructor's default: an interval above THREAD_STOP_TIMEOUT
FullConfigInputs ==
    [keys : SUBSET ConfigKeys, polling_interval : {10}, auto_recover : {FALSE},
     max_retries : {2}, invalid : {{}}]

\* the keys whose value update_config() converts with float() or int(), which
\* raise on a value such as "invalid"; bool() accepts any value
ConvertedKeys == {"polling_interval", "max_retries"}

\* dictionaries in which the values of the keys in `invalid` cannot be
\* converted
InvalidConfigInputs ==
    {c \in [keys : SUBSET RecognizedKeys, polling_interval : {10},
            auto_recover : {FALSE}, max_retries : {2},
            invalid : SUBSET ConvertedKeys] :
        c.invalid \subseteq c.keys}

\* seconds in one tick of the wall clock: a twelfth of the DYNAMIC period
ClockStep == 10
\* `elapsed / 120.0` in _update_dynamic_phase(): the DYNAMIC period, seconds
DynamicPeriod == 120
\* the generator's float values are kept in units of 1/Unit
Unit == 4000
\* math.sin() is kept in units of 1/SineUnit
SineUnit == 1000

\* scenario names a caller may pass to SimulationController.start()
ControllerScenarioInputs == SimulationScenario \cup {"bogus"}

\* the dictionaries a caller may pass to set_custom_parameters(): the two
\* ranges in the sensors' units, the emotion probabilities in hundredths
CustomParameterInputs ==
    {[greenery_range |-> g, noise_range |-> n,
      emotion_happy |-> e[1], emotion_neutral |-> e[2], emotion_sad |-> e[3]] :
        g \in {<<30, 60>>, <<80, 20>>, <<-10, 110>>},
        n \in {<<40, 50>>},
        e \in {<<60, 30, 10>>, <<70, 0, 50>>}}

\* outcomes of the hooks a concrete channel supplies
InitializeOutcomes == {"true", "false", "unavailable", "raise"}
CleanupOutcomes == {"true", "false", "raise"}
CaptureOutcomes == {"ok", "raise"}

VARIABLES
    sensors,          \* per channel: [status, mock_mode] (BaseSensor fields)
    always_failing,   \* channels whose initialize() never succeeds
    status,           \* SensorManager.status (ManagerStatus value)
    running,          \* SensorManager.running
    lock,             \* SensorManager._lock: NoThread or the holding thread
    polling_thread,   \* SensorManager._polling_thread: NoThread or a worker
    retry_counts,     \* SensorManager._retry_counts
    error_counts,     \* SensorManager._error_counts
    auto_recover,     \* SensorManager.auto_recover
    max_retries,      \* SensorManager.max_retries
    simulation_mode,  \* SensorManager.simulation_mode
    sim,              \* SimulationController: [active, current_scenario]
    wpc,              \* per worker: position in _polling_loop
    cpc,              \* per caller: position in the operation it executes
    calls,            \* number of calls the request layer has made
    faults,           \* number of times capture() or cleanup() has failed
    ret,              \* per caller: the value returned by the call the step just taken completed
    last_read_all,    \* the read_all() of the step just taken: what it saw and returned
    last_recover,     \* the _check_and_recover() of the step just taken: what it did
    start_time,       \* SensorManager._start_time: "none" or "set"
    last_op,          \* the last lifecycle operation that returned True
    last_start_all,   \* the start_all() of the step just taken: what it did
    last_stop_all,    \* the stop_all() in progress or just returned: what it did
    last_health,      \* the get_health() of the step just taken: the score it returned
    polling_interval, \* SensorManager.polling_interval, in seconds
    channel,          \* a BaseSensor driven directly through start(), stop() and read()
    last_call,        \* the call on channel of the step just taken: what it did
    now,              \* the wall clock, in units of ClockStep seconds
    last_generate     \* the generate_sensor_data() of the step just taken

vars == <<sensors, always_failing, status, running, lock, polling_thread,
          retry_counts, error_counts, auto_recover, max_retries,
          simulation_mode, sim, wpc, cpc, calls, faults, ret, last_read_all,
          last_recover, start_time, last_op, last_start_all, last_stop_all,
          last_health, polling_interval, channel, last_call, now,
          last_generate>>

\* --------------------------------------------------------------- helpers
Min(a, b) == IF a < b THEN a ELSE b
Max(a, b) == IF a > b THEN a ELSE b

Alive(w) == wpc[w] \notin {"none", "done"}
AliveWorkers == {w \in Workers : Alive(w)}
FreeSlots == {w \in Workers : ~Alive(w)}
\* the slot a newly created threading.Thread occupies
NewThread == CHOOSE w \in FreeSlots : \A v \in FreeSlots : w <= v

\* ------------------------------------------------------------ BaseSensor
\* BaseSensor.start() without the `already active` exit
sensor_start_always_initializes(s, hw, init) ==
    IF s.mock_mode
    THEN [sensor |-> [s EXCEPT !.status = "mock_mode"], ok |-> TRUE,
          checked |-> FALSE, initialized |-> FALSE, stamped |-> TRUE]
    ELSE IF ~hw
    THEN [sensor |-> [status |-> "mock_mode", mock_mode |-> TRUE], ok |-> TRUE,
          checked |-> TRUE, initialized |-> FALSE, stamped |-> TRUE]
    ELSE IF init = "true"
    THEN [sensor |-> [s EXCEPT !.status = "active"], ok |-> TRUE,
          checked |-> TRUE, initialized |-> TRUE, stamped |-> TRUE]
    ELSE [sensor |-> [status |-> "mock_mode", mock_mode |-> TRUE], ok |-> TRUE,
          checked |-> TRUE, initialized |-> TRUE, stamped |-> TRUE]

\* BaseSensor.start() without the `except SensorUnavailableError` handler and
\* the last-resort fallback: an initialize() that raises ends in ERROR
sensor_start_raise_is_error(s, hw, init) ==
    IF s.status = "active" \/ s.status = "mock_mode"
    THEN [sensor |-> s, ok |-> TRUE, checked |-> FALSE, initialized |-> FALSE,
          stamped |-> FALSE]
    ELSE IF s.mock_mode
    THEN [sensor |-> [s EXCEPT !.status = "mock_mode"], ok |-> TRUE,
          checked |-> FALSE, initialized |-> FALSE, stamped |-> TRUE]
    ELSE IF ~hw
    THEN [sensor |-> [status |-> "mock_mode", mock_mode |-> TRUE], ok |-> TRUE,
          checked |-> TRUE, initialized |-> FALSE, stamped |-> TRUE]
    ELSE IF init = "true"
    THEN [sensor |-> [s EXCEPT !.status = "active"], ok |-> TRUE,
          checked |-> TRUE, initialized |-> TRUE, stamped |-> TRUE]
    ELSE IF init = "false"
    THEN [sensor |-> [status |-> "mock_mode", mock_mode |-> TRUE], ok |-> TRUE,
          checked |-> TRUE, initialized |-> TRUE, stamped |-> TRUE]
    ELSE [sensor |-> [s EXCEPT !.status = "error"], ok |-> FALSE,
          checked |-> TRUE, initialized |-> TRUE, stamped |-> FALSE]

\* BaseSensor.start(): hw is check_hardware_available(), init is the outcome
\* of initialize().  Returns the sensor after the call, the bool returned,
\* whether check_hardware_available() and initialize() were called and
\* whether _start_time was set.
sensor_start(s, hw, init) ==
    IF s.status = "active" \/ s.status = "mock_mode"
    THEN [sensor |-> s, ok |-> TRUE, checked |-> FALSE, initialized |-> FALSE,
          stamped |-> FALSE]
    ELSE IF s.mock_mode
    THEN [sensor |-> [s EXCEPT !.status = "mock_mode"], ok |-> TRUE,
          checked |-> FALSE, initialized |-> FALSE, stamped |-> TRUE]
    ELSE IF ~hw
    THEN [sensor |-> [status |-> "mock_mode", mock_mode |-> TRUE], ok |-> TRUE,
          checked |-> TRUE, initialized |-> FALSE, stamped |-> TRUE]
    ELSE IF init = "true"
    THEN [sensor |-> [s EXCEPT !.status = "active"], ok |-> TRUE,
          checked |-> TRUE, initialized |-> TRUE, stamped |-> TRUE]
    ELSE \* initialize() returned False, raised SensorUnavailableError or
         \* raised anything else: every branch falls back to MOCK_MODE
         [sensor |-> [status |-> "mock_mode", mock_mode |-> TRUE], ok |-> TRUE,
          checked |-> TRUE, initialized |-> TRUE, stamped |-> TRUE]

\* BaseSensor.stop() without the `already inactive` exit
sensor_stop_always_cleans(s, cleanup) ==
    IF cleanup = "true"
    THEN [sensor |-> [s EXCEPT !.status = "inactive"], ok |-> TRUE, cleaned |-> TRUE]
    ELSE IF cleanup = "false" THEN [sensor |-> s, ok |-> FALSE, cleaned |-> TRUE]
    ELSE [sensor |-> [s EXCEPT !.status = "error"], ok |-> FALSE, cleaned |-> TRUE]

\* BaseSensor.stop(): cleanup is the outcome of cleanup().  Returns the
\* sensor after the call, the bool returned and whether cleanup() was called.
sensor_stop(s, cleanup) ==
    IF s.status = "inactive" THEN [sensor |-> s, ok |-> TRUE, cleaned |-> FALSE]
    ELSE IF cleanup = "true"
    THEN [sensor |-> [s EXCEPT !.status = "inactive"], ok |-> TRUE, cleaned |-> TRUE]
    ELSE IF cleanup = "false" THEN [sensor |-> s, ok |-> FALSE, cleaned |-> TRUE]
    ELSE [sensor |-> [s EXCEPT !.status = "error"], ok |-> FALSE, cleaned |-> TRUE]

\* BaseSensor.read() without the three status checks that raise
sensor_read_without_status_checks(s, cap) ==
    IF s.status = "mock_mode" \/ s.mock_mode
    THEN [sensor |-> s, ok |-> TRUE, mock |-> TRUE, captured |-> FALSE,
          synthetic |-> TRUE]
    ELSE IF cap = "ok"
    THEN [sensor |-> s, ok |-> TRUE, mock |-> FALSE, captured |-> TRUE,
          synthetic |-> FALSE]
    ELSE [sensor |-> [s EXCEPT !.status = "error"], ok |-> FALSE, mock |-> FALSE,
          captured |-> TRUE, synthetic |-> FALSE]

\* BaseSensor.read() without `self.status = SensorStatus.ERROR` in its
\* exception handler
sensor_read_keeps_status(s, cap) ==
    IF s.status \in {"inactive", "error", "unavailable"}
    THEN [sensor |-> s, ok |-> FALSE, mock |-> FALSE, captured |-> FALSE,
          synthetic |-> FALSE]
    ELSE IF s.status = "mock_mode" \/ s.mock_mode
    THEN [sensor |-> s, ok |-> TRUE, mock |-> TRUE, captured |-> FALSE,
          synthetic |-> TRUE]
    ELSE IF cap = "ok"
    THEN [sensor |-> s, ok |-> TRUE, mock |-> FALSE, captured |-> TRUE,
          synthetic |-> FALSE]
    ELSE [sensor |-> s, ok |-> FALSE, mock |-> FALSE, captured |-> TRUE,
          synthetic |-> FALSE]

\* BaseSensor.read() that calls capture() whatever the status
sensor_read_always_captures(s, cap) ==
    IF s.status \in {"inactive", "error", "unavailable"}
    THEN [sensor |-> s, ok |-> FALSE, mock |-> FALSE, captured |-> FALSE,
          synthetic |-> FALSE]
    ELSE IF cap = "ok"
    THEN [sensor |-> s, ok |-> TRUE, mock |-> FALSE, captured |-> TRUE,
          synthetic |-> FALSE]
    ELSE [sensor |-> [s EXCEPT !.status = "error"], ok |-> FALSE, mock |-> FALSE,
          captured |-> TRUE, synthetic |-> FALSE]

\* BaseSensor.read(): cap is the outcome of capture().  Returns the sensor
\* after the call, whether data was returned (FALSE: SensorError raised), the
\* "mock_mode" tag of the data, and whether capture() and capture_mock_data()
\* were called.
sensor_read(s, cap) ==
    IF s.status \in {"inactive", "error", "unavailable"}
    THEN [sensor |-> s, ok |-> FALSE, mock |-> FALSE, captured |-> FALSE,
          synthetic |-> FALSE]
    ELSE IF s.status = "mock_mode" \/ s.mock_mode
    THEN [sensor |-> s, ok |-> TRUE, mock |-> TRUE, captured |-> FALSE,
          synthetic |-> TRUE]
    ELSE IF cap = "ok"
    THEN [sensor |-> s, ok |-> TRUE, mock |-> FALSE, captured |-> TRUE,
          synthetic |-> FALSE]
    ELSE [sensor |-> [s EXCEPT !.status = "error"], ok |-> FALSE, mock |-> FALSE,
          captured |-> TRUE, synthetic |-> FALSE]

\* BaseSensor.get_status()["status"]: the enum's value
get_status(s) == s.status

\* ------------------------------------------- a BaseSensor with all its fields
\* The manager reads a channel's status and mock_mode only, and its model
\* keeps those two fields.  `channel` is one BaseSensor with the fields its own
\* contract speaks of, driven directly through start(), stop() and read().

\* what error_message holds: None, or the message of the handler that set it
ErrorMessages == {"none", "start", "stop", "capture"}

\* BaseSensor.__init__() with config = {"mock_mode": config_mock_mode}
BaseSensor(config_mock_mode) ==
    [status |-> "inactive", mock_mode |-> config_mock_mode,
     error_message |-> "none", config_mock_mode |-> config_mock_mode]

\* the fields of ch that decide what start(), stop() and read() do
control(ch) == [status |-> ch.status, mock_mode |-> ch.mock_mode]

\* ch after a call that left its deciding fields as s and its message as msg
updated(ch, s, msg) ==
    [ch EXCEPT !.status = s.status, !.mock_mode = s.mock_mode,
               !.error_message = msg]

\* error_message after start(): cleared by the SensorUnavailableError
\* handler, set by the handler of any other exception
start_message(ch, r, init) ==
    IF r.initialized /\ init = "unavailable" THEN "none"
    ELSE IF r.initialized /\ init = "raise" THEN "start"
    ELSE ch.error_message

\* error_message after stop(): set when cleanup() raised
stop_message(ch, r, cleanup) ==
    IF r.cleaned /\ cleanup = "raise" THEN "stop" ELSE ch.error_message

\* error_message after read(): set when capture() raised
read_message(ch, r) ==
    IF (r.captured \/ r.synthetic) /\ ~r.ok THEN "capture" ELSE ch.error_message

NoCall == [op |-> "none", before |-> BaseSensor(FALSE), hw |-> TRUE,
           init |-> "true", cleanup |-> "true", cap |-> "ok", ok |-> TRUE,
           checked |-> FALSE, initialized |-> FALSE, cleaned |-> FALSE,
           captured |-> FALSE, synthetic |-> FALSE, mock |-> FALSE]

\* --------------------------------------------------- SimulationController
\* SimulationController.start_time when it is None
NoTime == -1

\* SimulationController.__init__()
SimulationController ==
    [active |-> FALSE, current_scenario |-> "calm", start_time |-> NoTime,
     dynamic_phase |-> 0,
     custom_params |-> [greenery_range |-> <<0, 100>>, noise_range |-> <<0, 100>>,
                        emotion_happy |-> 50, emotion_neutral |-> 30,
                        emotion_sad |-> 20]]

NoGenerate == [called |-> FALSE, scenario |-> "calm", dynamic_phase |-> 0,
               greenery |-> <<0, 0>>, noise |-> <<0, 0>>, angry |-> 0]

\* math.sin() of an angle in degrees that is a multiple of 30, in 1/SineUnit
RECURSIVE sin(_)
sin(deg) ==
    LET d == deg % 360 IN
    IF d = 0 THEN 0
    ELSE IF d = 30 THEN 500
    ELSE IF d = 60 THEN 866
    ELSE IF d = 90 THEN 1000
    ELSE IF d <= 180 THEN sin(180 - d)
    ELSE 0 - sin(d - 180)

\* _update_dynamic_phase(): the phase, in degrees, from the seconds elapsed
\* since start(); left alone while start_time is None
update_dynamic_phase(sm) ==
    IF sm.start_time = NoTime THEN sm
    ELSE [sm EXCEPT !.dynamic_phase =
             ((now - sm.start_time) * ClockStep * 360) \div DynamicPeriod]

\* _get_dynamic_noise() with calm_avg and stress_avg exchanged: the blend
\* runs in the sense of _get_dynamic_greenery()
get_dynamic_noise_same_sense(phase) ==
    LET wave == sin(phase)
        calm_avg == (165 * Unit) \div 2
        stress_avg == 30 * Unit
    IN stress_avg - ((stress_avg - calm_avg) * (wave + SineUnit)) \div (2 * SineUnit)

\* _get_dynamic_greenery() before the variation is added
get_dynamic_greenery(phase) ==
    LET wave == sin(phase)
        calm_avg == 75 * Unit
        stress_avg == (25 * Unit) \div 2
    IN stress_avg + ((calm_avg - stress_avg) * (wave + SineUnit)) \div (2 * SineUnit)

\* _get_dynamic_noise() before the fluctuation is added
get_dynamic_noise(phase) ==
    LET wave == sin(phase)
        calm_avg == 30 * Unit
        stress_avg == (165 * Unit) \div 2
    IN stress_avg - ((stress_avg - calm_avg) * (wave + SineUnit)) \div (2 * SineUnit)

\* _get_greenery_value(): the bounds of the random.uniform() it samples
get_greenery_value(sm) ==
    IF sm.current_scenario = "calm" THEN <<60 * Unit, 90 * Unit>>
    ELSE IF sm.current_scenario = "stress" THEN <<5 * Unit, 20 * Unit>>
    ELSE IF sm.current_scenario = "dynamic"
    THEN <<get_dynamic_greenery(sm.dynamic_phase),
           get_dynamic_greenery(sm.dynamic_phase)>>
    ELSE <<sm.custom_params.greenery_range[1] * Unit,
           sm.custom_params.greenery_range[2] * Unit>>

\* _get_noise_value(): the bounds of the random.uniform() it samples
get_noise_value(sm) ==
    IF sm.current_scenario = "calm" THEN <<20 * Unit, 40 * Unit>>
    ELSE IF sm.current_scenario = "stress" THEN <<70 * Unit, 95 * Unit>>
    ELSE IF sm.current_scenario = "dynamic"
    THEN <<get_dynamic_noise(sm.dynamic_phase), get_dynamic_noise(sm.dynamic_phase)>>
    ELSE <<sm.custom_params.noise_range[1] * Unit,
           sm.custom_params.noise_range[2] * Unit>>

\* _get_emotion_values()["angry"] of the CUSTOM scenario, in hundredths
custom_angry(sm) ==
    100 - (sm.custom_params.emotion_happy + sm.custom_params.emotion_neutral
           + sm.custom_params.emotion_sad)

\* ---------------------------------------------------------- SensorManager
NoReadAll == [called |-> FALSE,
              envelope_simulation_mode |-> FALSE, data |-> << >>,
              errors |-> {}, reads |-> {}, stamped |-> {}]
NoRecover == [called |-> FALSE, started |-> {}]
NoReturn == [t \in Callers |-> "none"]
NoHealth == [called |-> FALSE, health_score |-> 0]
NoStartAll == [phase |-> "none", was_running |-> FALSE, started |-> {},
               already |-> {}]
NoStopAll == [phase |-> "none", was_running |-> FALSE, idle_at_clear |-> FALSE,
              stopped |-> {}, clean |-> {}]

\* _start_sensor() that reports a fallback to MOCK_MODE as a failure
start_sensor_fails_on_mock(s, retry, hw, init) ==
    LET r == sensor_start(s, hw, init) IN
    [sensor |-> r.sensor, ok |-> r.sensor.status = "active",
     retry |-> IF r.sensor.status = "active" THEN 0 ELSE retry]

\* _start_sensor(): sensor.start(), and the retry count reset on success
start_sensor(s, retry, hw, init) ==
    LET r == sensor_start(s, hw, init) IN
    [sensor |-> r.sensor, ok |-> r.ok, retry |-> IF r.ok THEN 0 ELSE retry]

\* the channels start_all() starts before channel c
StartBefore(c) ==
    IF c = "camera" THEN {}
    ELSE IF c = "microphone" THEN {"camera"}
    ELSE {"camera", "microphone"}

\* start_all() that gives up at the first channel that does not come up on
\* its hardware
start_sensors_stops_at_failure(cs, env) ==
    LET r == [c \in Channels |->
                start_sensor(sensors[c], retry_counts[c], env[c].hw, env[c].init)]
        reached == {c \in cs : \A d \in StartBefore(c) \cap cs :
                                   r[d].sensor.status = "active"}
    IN
    [sensors |-> [c \in Channels |-> IF c \in reached THEN r[c].sensor ELSE sensors[c]],
     retry_counts |-> [c \in Channels |->
                          IF c \in reached THEN r[c].retry ELSE retry_counts[c]],
     ok |-> [c \in Channels |-> c \in reached /\ r[c].ok]]

\* _start_sensor() applied to each channel of cs, with the others untouched
start_sensors(cs, env) ==
    LET r == [c \in Channels |->
                start_sensor(sensors[c], retry_counts[c], env[c].hw, env[c].init)] IN
    [sensors |-> [c \in Channels |-> IF c \in cs THEN r[c].sensor ELSE sensors[c]],
     retry_counts |-> [c \in Channels |-> IF c \in cs THEN r[c].retry ELSE retry_counts[c]],
     ok |-> [c \in Channels |-> r[c].ok]]

\* the outcomes initialize() can have on channel c
InitOutcomesOf(c) ==
    IF c \in always_failing THEN InitializeOutcomes \ {"true"} ELSE InitializeOutcomes

\* What the hardware answers to the start() of channel c: the value of
\* check_hardware_available() and the outcome of initialize().  A start()
\* that reaches no hook (consults = FALSE) has one, unused, answer.
StartAnswers(c, consults) ==
    IF consults /\ sensors[c].status \notin {"active", "mock_mode"} /\ ~sensors[c].mock_mode
    THEN {[hw |-> FALSE, init |-> "false"]}
         \cup {[hw |-> TRUE, init |-> i] : i \in InitOutcomesOf(c)}
    ELSE {[hw |-> TRUE, init |-> "false"]}

\* the answers to the start() of the channels in cs
StartEnvs(cs) ==
    {[camera |-> a, microphone |-> b, air_quality |-> c] :
        a \in StartAnswers("camera", "camera" \in cs),
        b \in StartAnswers("microphone", "microphone" \in cs),
        c \in StartAnswers("air_quality", "air_quality" \in cs)}

\* the number of hooks that fail in an answer e whose good outcome is good
Failures(e, good) == Cardinality({c \in Channels : e[c] # good})

\* the outcomes of cleanup() in the stop() of channel c
CleanupAnswers(c) ==
    IF sensors[c].status = "inactive" THEN {"true"} ELSE CleanupOutcomes

\* the outcome of cleanup() for each channel whose stop() calls it
CleanupEnvs ==
    {e \in {[camera |-> a, microphone |-> b, air_quality |-> c] :
                a \in CleanupAnswers("camera"),
                b \in CleanupAnswers("microphone"),
                c \in CleanupAnswers("air_quality")} :
        faults + Failures(e, "true") <= MaxFaults}

\* the outcomes of capture() in the read() of channel c
CaptureAnswers(c) ==
    IF simulation_mode \/ sensors[c].status # "active" \/ sensors[c].mock_mode
    THEN {"ok"} ELSE CaptureOutcomes

\* the outcome of capture() for each channel whose read() calls it
CaptureEnvs ==
    {e \in {[camera |-> a, microphone |-> b, air_quality |-> c] :
                a \in CaptureAnswers("camera"),
                b \in CaptureAnswers("microphone"),
                c \in CaptureAnswers("air_quality")} :
        faults + Failures(e, "ok") <= MaxFaults}

\* the state after SensorManager.__init__() with the channels in force_mock
\* configured with mock_mode = True, in an environment where the
\* initialize() of the channels in failing never succeeds
InitManager(failing, force_mock) ==
    /\ sensors = [c \in Channels |->
                    [status |-> "inactive", mock_mode |-> c \in force_mock]]
    /\ always_failing = failing
    /\ status = "stopped"
    /\ running = FALSE
    /\ lock = NoThread
    /\ polling_thread = NoThread
    /\ retry_counts = [c \in Channels |-> 0]
    /\ error_counts = [c \in Channels |-> 0]
    /\ auto_recover = TRUE
    /\ max_retries = 3
    /\ simulation_mode = FALSE
    /\ sim = SimulationController
    /\ wpc = [w \in Workers |-> "none"]
    /\ cpc = [t \in Callers |-> "idle"]
    /\ calls = 0
    /\ faults = 0
    /\ ret = NoReturn
    /\ last_read_all = NoReadAll
    /\ last_recover = NoRecover
    /\ last_health = NoHealth
    /\ start_time = "none"
    /\ last_op = "none"
    /\ last_start_all = NoStartAll
    /\ last_stop_all = NoStopAll
    /\ polling_interval = DefaultPollingInterval
    /\ last_call = NoCall
    /\ now = 0
    /\ last_generate = NoGenerate

InitConfigured(failing, force_mock) ==
    /\ InitManager(failing, force_mock)
    /\ channel = BaseSensor(FALSE)

InitState(failing) == InitConfigured(failing, {})

Init == InitState({})

\* one permanently failing channel
InitFailing == InitState({"camera"})

\* every channel configured with mock_mode = True
InitForceMock == InitConfigured({}, Channels)

\* a BaseSensor constructed with or without mock_mode in its config
InitSensor ==
    /\ InitManager({}, {})
    /\ channel \in {BaseSensor(m) : m \in BOOLEAN}

\* what a step of a polling thread leaves of last_stop_all: the record of a
\* stop_all() that is still waiting in join() is kept
DuringJoin ==
    IF \E t \in Callers : cpc[t] = "stop_all_join" THEN last_stop_all ELSE NoStopAll

\* the channels that are ACTIVE or MOCK_MODE when start() is called on them
already_started ==
    {c \in Channels : sensors[c].status \in {"active", "mock_mode"}}

\* `if not camera_ok and not microphone_ok and not air_quality_ok`
start_all_aborts(ok) ==
    ~ok["camera"] /\ ~ok["microphone"] /\ ~ok["air_quality"]

\* ------------------------------------------------------------- start_all
\* start_all() without the `if self.running: return True` exit
start_all_without_running_check(t) ==
    /\ cpc[t] = "idle" /\ lock = NoThread
    /\ calls < MaxCalls /\ calls' = calls + 1
    /\ \E env \in StartEnvs(Channels) :
         /\ FreeSlots # {}
         /\ \E r \in {start_sensors(Channels, env)} :
            /\ sensors' = r.sensors
            /\ retry_counts' = r.retry_counts
            /\ UNCHANGED last_op
            /\ IF start_all_aborts(r.ok)
               THEN /\ status' = "error"
                    /\ ret' = [NoReturn EXCEPT ![t] = "false"]
                    /\ last_start_all' =
                          [phase |-> "returned", was_running |-> running,
                           started |-> Channels,
                           already |-> already_started]
                    /\ UNCHANGED <<running, lock, cpc>>
               ELSE /\ status' = "starting"
                    /\ running' = TRUE
                    /\ lock' = t
                    /\ cpc' = [cpc EXCEPT ![t] = "start_all_spawn"]
                    /\ ret' = NoReturn
                    /\ last_start_all' =
                          [phase |-> "entered", was_running |-> running,
                           started |-> Channels,
                           already |-> already_started]
    /\ UNCHANGED <<always_failing, polling_thread, error_counts, auto_recover,
                   max_retries, simulation_mode, sim, wpc>>
    /\ last_read_all' = NoReadAll
    /\ last_recover' = NoRecover
    /\ UNCHANGED faults
    /\ last_health' = NoHealth
    /\ UNCHANGED <<polling_interval, channel, last_call, now, last_generate>>
    /\ last_stop_all' = NoStopAll
    /\ UNCHANGED start_time

\* start_all() up to `self.running = True`: the lock is taken, the three
\* channels are started, and the caller is left holding the lock just before
\* it creates the polling thread.
start_all(t) ==
    /\ cpc[t] = "idle" /\ lock = NoThread
    /\ calls < MaxCalls /\ calls' = calls + 1
    /\ IF running
       THEN /\ ret' = [NoReturn EXCEPT ![t] = "true"]
            /\ last_op' = "start_all"
            /\ last_start_all' = [NoStartAll EXCEPT !.phase = "returned",
                                                    !.was_running = TRUE]
            /\ UNCHANGED <<sensors, status, running, lock, retry_counts, cpc>>
       ELSE \E env \in StartEnvs(Channels) :
              /\ FreeSlots # {}
              /\ \E r \in {start_sensors(Channels, env)} :
                 /\ sensors' = r.sensors
                 /\ retry_counts' = r.retry_counts
                 /\ UNCHANGED last_op
                 /\ IF start_all_aborts(r.ok)
                    THEN /\ status' = "error"
                         /\ ret' = [NoReturn EXCEPT ![t] = "false"]
                         /\ last_start_all' =
                               [phase |-> "returned", was_running |-> FALSE,
                                started |-> Channels,
                                already |-> already_started]
                         /\ UNCHANGED <<running, lock, cpc>>
                    ELSE /\ status' = "starting"
                         /\ running' = TRUE
                         /\ lock' = t
                         /\ cpc' = [cpc EXCEPT ![t] = "start_all_spawn"]
                         /\ ret' = NoReturn
                         /\ last_start_all' =
                               [phase |-> "entered", was_running |-> FALSE,
                                started |-> Channels,
                                already |-> already_started]
    /\ UNCHANGED <<always_failing, polling_thread, error_counts, auto_recover,
                   max_retries, simulation_mode, sim, wpc>>
    /\ last_read_all' = NoReadAll
    /\ last_recover' = NoRecover
    /\ UNCHANGED faults
    /\ last_health' = NoHealth
    /\ UNCHANGED <<polling_interval, channel, last_call, now, last_generate>>
    /\ last_stop_all' = NoStopAll
    /\ UNCHANGED start_time

\* start_all() that returns without `self.status = ManagerStatus.RUNNING`
start_all_spawn_keeps_starting(t) ==
    /\ cpc[t] = "start_all_spawn"
    /\ polling_thread' = NewThread
    /\ wpc' = [wpc EXCEPT ![NewThread] = "check"]
    /\ lock' = NoThread
    /\ cpc' = [cpc EXCEPT ![t] = "idle"]
    /\ ret' = [NoReturn EXCEPT ![t] = "true"]
    /\ last_read_all' = NoReadAll
    /\ last_recover' = NoRecover
    /\ last_health' = NoHealth
    /\ UNCHANGED <<polling_interval, channel, last_call, now, last_generate>>
    /\ UNCHANGED <<sensors, always_failing, status, running, retry_counts,
                   error_counts, auto_recover, max_retries, simulation_mode,
                   sim, calls, faults>>
    /\ start_time' = "set"
    /\ last_op' = "start_all"
    /\ last_start_all' = [NoStartAll EXCEPT !.phase = "returned",
                                            !.started = Channels]
    /\ last_stop_all' = NoStopAll

\* start_all() from the creation of the polling thread to the return
start_all_spawn(t) ==
    /\ cpc[t] = "start_all_spawn"
    /\ polling_thread' = NewThread
    /\ wpc' = [wpc EXCEPT ![NewThread] = "check"]
    /\ status' = "running"
    /\ lock' = NoThread
    /\ cpc' = [cpc EXCEPT ![t] = "idle"]
    /\ ret' = [NoReturn EXCEPT ![t] = "true"]
    /\ UNCHANGED <<sensors, always_failing, running, retry_counts, error_counts,
                   auto_recover, max_retries, simulation_mode, sim>>
    /\ last_read_all' = NoReadAll
    /\ last_recover' = NoRecover
    /\ UNCHANGED <<calls, faults>>
    /\ last_health' = NoHealth
    /\ UNCHANGED <<polling_interval, channel, last_call, now, last_generate>>
    /\ start_time' = "set"
    /\ last_op' = "start_all"
    /\ last_start_all' = [NoStartAll EXCEPT !.phase = "returned",
                                            !.started = Channels]
    /\ last_stop_all' = NoStopAll

\* -------------------------------------------------------------- stop_all
\* stop_all() that stops only the channels running on their hardware
stop_sensors_only_active(cleanup) ==
    [c \in Channels |->
        IF sensors[c].status = "active"
        THEN sensor_stop(sensors[c], cleanup[c]).sensor ELSE sensors[c]]

\* _stop_sensor() applied to every channel
stop_sensors(cleanup) ==
    [c \in Channels |-> sensor_stop(sensors[c], cleanup[c]).sensor]

\* the channels whose _stop_sensor() returns True
stopped_cleanly(cleanup) ==
    {c \in Channels : sensor_stop(sensors[c], cleanup[c]).ok}

\* the positions of a worker inside time.sleep(self.polling_interval):
\* "sleep_long" is a sleep that can end after a join() on the worker gives up
\* "backoff" is the time.sleep(1.0) of the loop's exception handler
Sleeping == {"sleep", "sleep_long", "backoff"}

\* the position of a worker that calls time.sleep(self.polling_interval) now:
\* the sleep can outlast a join() if it is longer than the join's timeout, or
\* as long and begun after the join
sleep_position ==
    IF \/ polling_interval > THREAD_STOP_TIMEOUT
       \/ /\ polling_interval = THREAD_STOP_TIMEOUT
          /\ \E t \in Callers : cpc[t] = "stop_all_join"
    THEN "sleep_long" ELSE "sleep"

\* Thread.join(timeout=THREAD_STOP_TIMEOUT) gives up on a worker that cannot
\* observe the cleared flag in time: one blocked on the lock its joiner holds
\* inside read_all(), or one inside a time.sleep() that outlasts the timeout
JoinTimesOut(w) == wpc[w] \in {"read_all", "sleep_long"}

\* stop_all() up to the join on the polling thread
stop_all(t) ==
    /\ cpc[t] = "idle" /\ lock = NoThread
    /\ calls < MaxCalls /\ calls' = calls + 1
    /\ IF ~running
       THEN /\ ret' = [NoReturn EXCEPT ![t] = "true"]
            /\ last_op' = "stop_all"
            /\ last_stop_all' = [NoStopAll EXCEPT !.phase = "returned"]
            /\ UNCHANGED <<sensors, status, running, lock, cpc, faults,
                           start_time>>
       ELSE /\ running' = FALSE
            /\ IF polling_thread # NoThread /\ Alive(polling_thread)
               THEN /\ status' = "stopping"
                    /\ faults' = faults
                    /\ lock' = t
                    /\ cpc' = [cpc EXCEPT ![t] = "stop_all_join"]
                    /\ ret' = NoReturn
                    /\ last_stop_all' =
                          [NoStopAll EXCEPT
                              !.phase = "entered", !.was_running = TRUE,
                              !.idle_at_clear = (wpc[polling_thread] \in Sleeping)]
                    /\ UNCHANGED <<sensors, start_time, last_op>>
               ELSE \E cleanup \in CleanupEnvs :
                    /\ sensors' = stop_sensors(cleanup)
                    /\ faults' = faults + Failures(cleanup, "true")
                    /\ status' = "stopped"
                    /\ start_time' = "none"
                    /\ last_op' = "stop_all"
                    /\ last_stop_all' =
                          [phase |-> "returned", was_running |-> TRUE,
                           idle_at_clear |-> FALSE, stopped |-> Channels,
                           clean |-> stopped_cleanly(cleanup)]
                    /\ ret' = [NoReturn EXCEPT ![t] = "true"]
                    /\ UNCHANGED <<lock, cpc>>
    /\ UNCHANGED <<always_failing, polling_thread, retry_counts, error_counts,
                   auto_recover, max_retries, simulation_mode, sim, wpc>>
    /\ last_read_all' = NoReadAll
    /\ last_recover' = NoRecover
    /\ last_health' = NoHealth
    /\ UNCHANGED <<polling_interval, channel, last_call, now, last_generate>>
    /\ last_start_all' = NoStartAll

\* stop_all() from the return of join() to the return of the call
stop_all_join(t) ==
    /\ cpc[t] = "stop_all_join"
    /\ ~Alive(polling_thread) \/ JoinTimesOut(polling_thread)
    /\ \E cleanup \in CleanupEnvs :
         /\ sensors' = stop_sensors(cleanup)
         /\ faults' = faults + Failures(cleanup, "true")
         /\ last_stop_all' =
               [phase |-> "returned", was_running |-> TRUE,
                idle_at_clear |-> last_stop_all.idle_at_clear,
                stopped |-> Channels, clean |-> stopped_cleanly(cleanup)]
    /\ status' = "stopped"
    /\ start_time' = "none"
    /\ last_op' = "stop_all"
    /\ last_start_all' = NoStartAll
    /\ lock' = NoThread
    /\ cpc' = [cpc EXCEPT ![t] = "idle"]
    /\ ret' = [NoReturn EXCEPT ![t] = "true"]
    /\ UNCHANGED <<always_failing, running, polling_thread, retry_counts,
                   error_counts, auto_recover, max_retries, simulation_mode,
                   sim, wpc>>
    /\ last_read_all' = NoReadAll
    /\ last_recover' = NoRecover
    /\ UNCHANGED calls
    /\ last_health' = NoHealth
    /\ UNCHANGED <<polling_interval, channel, last_call, now, last_generate>>

\* ------------------------------------------------------------- simulation
\* SimulationController.start(): set_scenario() raises on an unknown name
sim_start(scenario) ==
    IF scenario \in SimulationScenario
    THEN [sim |-> [sim EXCEPT !.active = TRUE, !.current_scenario = scenario,
                              !.start_time = now, !.dynamic_phase = 0],
          ok |-> TRUE]
    ELSE [sim |-> sim, ok |-> FALSE]

\* SimulationController.stop()
sim_stop == [sim EXCEPT !.active = FALSE, !.start_time = NoTime]

\* SimulationController.generate_sensor_data(): one entry per logical channel
generate_sensor_data ==
    [k \in {"camera", "microphone", "emotion"} |->
        [simulation_mode |-> TRUE, mock_mode |-> FALSE]]

\* start_simulation() up to `self.running = True`, or up to the nested
\* stop_all(): the lock is a threading.Lock, so the `with self._lock` of
\* stop_all() waits for the lock its own caller holds
start_simulation(t, scenario) ==
    /\ cpc[t] = "idle" /\ lock = NoThread
    /\ calls < MaxCalls /\ calls' = calls + 1
    /\ IF running /\ ~simulation_mode
       THEN /\ lock' = t
            /\ cpc' = [cpc EXCEPT ![t] = "start_simulation_stop_all"]
            /\ ret' = NoReturn
            /\ UNCHANGED <<status, running, simulation_mode, sim, last_op>>
       ELSE LET r == sim_start(scenario) IN
            IF r.ok
            THEN /\ sim' = r.sim
                 /\ simulation_mode' = TRUE
                 /\ IF ~running
                    THEN /\ FreeSlots # {}
                         /\ status' = "starting"
                         /\ running' = TRUE
                         /\ lock' = t
                         /\ cpc' = [cpc EXCEPT ![t] = "start_simulation_spawn"]
                         /\ ret' = NoReturn
                         /\ UNCHANGED last_op
                    ELSE /\ ret' = [NoReturn EXCEPT ![t] = "true"]
                         /\ last_op' = "start_simulation"
                         /\ UNCHANGED <<status, running, lock, cpc>>
            ELSE /\ ret' = [NoReturn EXCEPT ![t] = "false"]
                 /\ UNCHANGED <<status, running, lock, cpc, simulation_mode, sim,
                                last_op>>
    /\ UNCHANGED <<sensors, always_failing, polling_thread, retry_counts,
                   error_counts, auto_recover, max_retries, wpc>>
    /\ last_read_all' = NoReadAll
    /\ last_recover' = NoRecover
    /\ UNCHANGED faults
    /\ last_health' = NoHealth
    /\ UNCHANGED <<polling_interval, channel, last_call, now, last_generate>>
    /\ last_start_all' = NoStartAll
    /\ last_stop_all' = NoStopAll
    /\ UNCHANGED start_time

\* start_simulation() that returns without `self.status = ManagerStatus.RUNNING`
start_simulation_spawn_keeps_starting(t) ==
    /\ cpc[t] = "start_simulation_spawn"
    /\ polling_thread' = NewThread
    /\ wpc' = [wpc EXCEPT ![NewThread] = "check"]
    /\ lock' = NoThread
    /\ cpc' = [cpc EXCEPT ![t] = "idle"]
    /\ ret' = [NoReturn EXCEPT ![t] = "true"]
    /\ UNCHANGED <<sensors, always_failing, status, running, retry_counts, error_counts,
                   auto_recover, max_retries, simulation_mode, sim>>
    /\ last_read_all' = NoReadAll
    /\ last_recover' = NoRecover
    /\ UNCHANGED <<calls, faults>>
    /\ last_health' = NoHealth
    /\ UNCHANGED <<polling_interval, channel, last_call, now, last_generate>>
    /\ last_start_all' = NoStartAll
    /\ last_stop_all' = NoStopAll
    /\ start_time' = "set"
    /\ last_op' = "start_simulation"

\* start_simulation() from the creation of the polling thread to the return
start_simulation_spawn(t) ==
    /\ cpc[t] = "start_simulation_spawn"
    /\ polling_thread' = NewThread
    /\ wpc' = [wpc EXCEPT ![NewThread] = "check"]
    /\ status' = "running"
    /\ lock' = NoThread
    /\ cpc' = [cpc EXCEPT ![t] = "idle"]
    /\ ret' = [NoReturn EXCEPT ![t] = "true"]
    /\ UNCHANGED <<sensors, always_failing, running, retry_counts, error_counts,
                   auto_recover, max_retries, simulation_mode, sim>>
    /\ last_read_all' = NoReadAll
    /\ last_recover' = NoRecover
    /\ UNCHANGED <<calls, faults>>
    /\ last_health' = NoHealth
    /\ UNCHANGED <<polling_interval, channel, last_call, now, last_generate>>
    /\ last_start_all' = NoStartAll
    /\ last_stop_all' = NoStopAll
    /\ start_time' = "set"
    /\ last_op' = "start_simulation"

stop_simulation(t) ==
    /\ cpc[t] = "idle" /\ lock = NoThread
    /\ calls < MaxCalls /\ calls' = calls + 1
    /\ IF ~simulation_mode
       THEN UNCHANGED <<simulation_mode, sim, last_op>>
       ELSE /\ sim' = sim_stop
            /\ simulation_mode' = FALSE
            /\ last_op' = "stop_simulation"
    /\ ret' = [NoReturn EXCEPT ![t] = "true"]
    /\ UNCHANGED <<sensors, always_failing, status, running, lock,
                   polling_thread, retry_counts, error_counts, auto_recover,
                   max_retries, wpc, cpc>>
    /\ last_read_all' = NoReadAll
    /\ last_recover' = NoRecover
    /\ UNCHANGED faults
    /\ last_health' = NoHealth
    /\ UNCHANGED <<polling_interval, channel, last_call, now, last_generate>>
    /\ last_start_all' = NoStartAll
    /\ last_stop_all' = NoStopAll
    /\ UNCHANGED start_time

\* ---------------------------------------------------------- update_config
\* update_config() that takes an absent key as a request for the default
update_config_resets_absent(t, keys, pi, ar, mr, invalid) ==
    /\ cpc[t] = "idle" /\ lock = NoThread
    /\ calls < MaxCalls /\ calls' = calls + 1
    /\ polling_interval' = IF "polling_interval" \in keys THEN pi
                           ELSE DefaultPollingInterval
    /\ auto_recover' = IF "auto_recover" \in keys THEN ar ELSE TRUE
    /\ max_retries' = IF "max_retries" \in keys THEN mr ELSE 3
    /\ ret' = [NoReturn EXCEPT ![t] = "true"]
    /\ UNCHANGED <<sensors, always_failing, status, running, lock,
                   polling_thread, retry_counts, error_counts, simulation_mode,
                   sim, wpc, cpc>>
    /\ last_read_all' = NoReadAll
    /\ last_recover' = NoRecover
    /\ UNCHANGED faults
    /\ last_health' = NoHealth
    /\ UNCHANGED <<channel, last_call, now, last_generate>>
    /\ last_start_all' = NoStartAll
    /\ last_stop_all' = NoStopAll
    /\ UNCHANGED <<start_time, last_op>>

\* update_config(): keys is the set of keys present in new_config, pi, ar and
\* mr the values of polling_interval, auto_recover and max_retries, invalid
\* the keys whose value float() or int() rejects.  The three assignments run
\* in order inside one try; the first conversion that raises ends the call
\* with False, after the assignments before it.
update_config(t, keys, pi, ar, mr, invalid) ==
    /\ cpc[t] = "idle" /\ lock = NoThread
    /\ calls < MaxCalls /\ calls' = calls + 1
    /\ LET float_raises == "polling_interval" \in keys \cap invalid
           int_raises == ~float_raises /\ "max_retries" \in keys \cap invalid
       IN /\ polling_interval' = IF "polling_interval" \in keys /\ ~float_raises
                                 THEN pi ELSE polling_interval
          /\ auto_recover' = IF "auto_recover" \in keys /\ ~float_raises
                             THEN ar ELSE auto_recover
          /\ max_retries' = IF "max_retries" \in keys /\ ~float_raises
                                 /\ ~int_raises
                            THEN mr ELSE max_retries
          /\ ret' = [NoReturn EXCEPT ![t] = IF float_raises \/ int_raises
                                            THEN "false" ELSE "true"]
    /\ UNCHANGED <<sensors, always_failing, status, running, lock,
                   polling_thread, retry_counts, error_counts, simulation_mode,
                   sim, wpc, cpc>>
    /\ last_read_all' = NoReadAll
    /\ last_recover' = NoRecover
    /\ UNCHANGED faults
    /\ last_health' = NoHealth
    /\ UNCHANGED <<channel, last_call, now, last_generate>>
    /\ last_start_all' = NoStartAll
    /\ last_stop_all' = NoStopAll
    /\ UNCHANGED <<start_time, last_op>>

\* --------------------------------------------------------------- read_all
\* the body of read_all() executed under the lock; cap gives the
\* outcome capture() has on each channel
read_all_body_ignores_simulation(cap) ==
    \E r \in {[c \in Channels |-> sensor_read(sensors[c], cap[c])]} :
    LET good == {c \in Channels : r[c].ok}
    IN /\ \A c \in Channels \ good : error_counts[c] < MaxErrorCount
       /\ sensors' = [c \in Channels |-> r[c].sensor]
       /\ faults' = faults + Failures(cap, "ok")
       /\ error_counts' = [c \in Channels |->
                              IF r[c].ok THEN 0 ELSE error_counts[c] + 1]
       /\ last_read_all' = [called |-> TRUE,
                            envelope_simulation_mode |-> FALSE,
                            data |-> [c \in good |->
                                       [simulation_mode |-> FALSE,
                                        mock_mode |-> r[c].mock]],
                            errors |-> Channels \ good,
                            reads |-> Channels, stamped |-> good]

\* the channels read_all() reads before channel c
ReadBefore(c) ==
    IF c = "camera" THEN {}
    ELSE IF c = "microphone" THEN {"camera"}
    ELSE {"camera", "microphone"}

\* read_all() without a try/except around each read(): the first failure
\* ends the call
read_all_body_stops_at_failure(cap) ==
    IF simulation_mode
    THEN /\ last_read_all' = [called |-> TRUE,
                              envelope_simulation_mode |-> TRUE,
                              data |-> generate_sensor_data,
                              errors |-> {}, reads |-> {}, stamped |-> {}]
         /\ UNCHANGED <<sensors, error_counts, faults>>
    ELSE \E r \in {[c \in Channels |-> sensor_read(sensors[c], cap[c])]} :
         LET reads == {c \in Channels : \A d \in ReadBefore(c) : r[d].ok}
             good == {c \in reads : r[c].ok}
         IN /\ \A c \in reads \ good : error_counts[c] < MaxErrorCount
            /\ sensors' = [c \in Channels |->
                              IF c \in reads THEN r[c].sensor ELSE sensors[c]]
            /\ faults' = faults + Cardinality({c \in reads : cap[c] # "ok"})
            /\ error_counts' = [c \in Channels |->
                                   IF c \in good THEN 0
                                   ELSE IF c \in reads THEN error_counts[c] + 1
                                   ELSE error_counts[c]]
            /\ last_read_all' = [called |-> TRUE,
                                 envelope_simulation_mode |-> FALSE,
                                 data |-> [c \in good |->
                                            [simulation_mode |-> FALSE,
                                             mock_mode |-> r[c].mock]],
                                 errors |-> reads \ good,
                                 reads |-> reads, stamped |-> good]

\* read_all() without `self._error_counts[name] = 0` after a successful read
read_all_body_keeps_errors(cap) ==
    IF simulation_mode
    THEN /\ last_read_all' = [called |-> TRUE,
                              envelope_simulation_mode |-> TRUE,
                              data |-> generate_sensor_data,
                              errors |-> {}, reads |-> {}, stamped |-> {}]
         /\ UNCHANGED <<sensors, error_counts, faults>>
    ELSE \E r \in {[c \in Channels |-> sensor_read(sensors[c], cap[c])]} :
         LET good == {c \in Channels : r[c].ok}
         IN /\ \A c \in Channels \ good : error_counts[c] < MaxErrorCount
            /\ sensors' = [c \in Channels |-> r[c].sensor]
            /\ faults' = faults + Failures(cap, "ok")
            /\ error_counts' = [c \in Channels |->
                                   IF r[c].ok THEN error_counts[c]
                                   ELSE error_counts[c] + 1]
            /\ last_read_all' = [called |-> TRUE,
                                 envelope_simulation_mode |-> FALSE,
                                 data |-> [c \in good |->
                                            [simulation_mode |-> FALSE,
                                             mock_mode |-> r[c].mock]],
                                 errors |-> Channels \ good,
                                 reads |-> Channels, stamped |-> good]

read_all_body(cap) ==
    IF simulation_mode
    THEN /\ last_read_all' = [called |-> TRUE,
                              envelope_simulation_mode |-> TRUE,
                              data |-> generate_sensor_data,
                              errors |-> {}, reads |-> {}, stamped |-> {}]
         /\ UNCHANGED <<sensors, error_counts, faults>>
    ELSE \E r \in {[c \in Channels |-> sensor_read(sensors[c], cap[c])]} :
         LET good == {c \in Channels : r[c].ok}
         IN /\ \A c \in Channels \ good : error_counts[c] < MaxErrorCount
            /\ sensors' = [c \in Channels |-> r[c].sensor]
            /\ faults' = faults + Failures(cap, "ok")
            /\ error_counts' = [c \in Channels |->
                                   IF r[c].ok THEN 0 ELSE error_counts[c] + 1]
            /\ last_read_all' = [called |-> TRUE,
                                 envelope_simulation_mode |-> FALSE,
                                 data |-> [c \in good |->
                                            [simulation_mode |-> FALSE,
                                             mock_mode |-> r[c].mock]],
                                 errors |-> Channels \ good,
                                 reads |-> Channels, stamped |-> good]

\* read_all() called by the request layer
read_all(t) ==
    /\ cpc[t] = "idle" /\ lock = NoThread
    /\ calls < MaxCalls /\ calls' = calls + 1
    /\ \E cap \in CaptureEnvs : read_all_body(cap)
    /\ ret' = [NoReturn EXCEPT ![t] = "envelope"]
    /\ UNCHANGED <<always_failing, status, running, lock, polling_thread,
                   retry_counts, auto_recover, max_retries, simulation_mode,
                   sim, wpc, cpc>>
    /\ last_recover' = NoRecover
    /\ last_health' = NoHealth
    /\ UNCHANGED <<polling_interval, channel, last_call, now, last_generate>>
    /\ last_start_all' = NoStartAll
    /\ last_stop_all' = NoStopAll
    /\ UNCHANGED <<start_time, last_op>>

\* ---------------------------------------------------------- _polling_loop
\* `while self.running:` read without the lock, by a worker that has just
\* been started or whose time.sleep(self.polling_interval) returns
polling_loop_check(w) ==
    /\ wpc[w] \in {"check"} \cup Sleeping
    /\ wpc' = [wpc EXCEPT ![w] = IF running THEN "read_all" ELSE "done"]
    /\ UNCHANGED <<sensors, always_failing, status, running, lock,
                   polling_thread, retry_counts, error_counts, auto_recover,
                   max_retries, simulation_mode, sim, cpc>>
    /\ last_read_all' = NoReadAll
    /\ last_recover' = NoRecover
    /\ ret' = NoReturn
    /\ UNCHANGED <<calls, faults>>
    /\ last_health' = NoHealth
    /\ UNCHANGED <<polling_interval, channel, last_call, now, last_generate>>
    /\ last_start_all' = NoStartAll
    /\ last_stop_all' = DuringJoin
    /\ UNCHANGED <<start_time, last_op>>

\* `self.read_all()`: waits for the lock, then reads
polling_loop_read_all(w) ==
    /\ wpc[w] = "read_all" /\ lock = NoThread
    /\ \E cap \in CaptureEnvs : read_all_body(cap)
    /\ wpc' = [wpc EXCEPT ![w] = "recover"]
    /\ UNCHANGED <<always_failing, status, running, lock, polling_thread,
                   retry_counts, auto_recover, max_retries, simulation_mode,
                   sim, cpc>>
    /\ last_recover' = NoRecover
    /\ ret' = NoReturn
    /\ UNCHANGED calls
    /\ last_health' = NoHealth
    /\ UNCHANGED <<polling_interval, channel, last_call, now, last_generate>>
    /\ last_start_all' = NoStartAll
    /\ last_stop_all' = DuringJoin
    /\ UNCHANGED <<start_time, last_op>>

\* _polling_loop() without its `except Exception`: the exception ends the thread
polling_loop_except_exits(w) ==
    /\ wpc[w] = "read_all" /\ lock = NoThread
    /\ simulation_mode
    /\ wpc' = [wpc EXCEPT ![w] = "done"]
    /\ UNCHANGED <<sensors, always_failing, status, running, lock,
                   polling_thread, retry_counts, error_counts, auto_recover,
                   max_retries, simulation_mode, sim, cpc>>
    /\ last_read_all' = NoReadAll
    /\ last_recover' = NoRecover
    /\ ret' = NoReturn
    /\ UNCHANGED <<calls, faults>>
    /\ last_health' = NoHealth
    /\ UNCHANGED <<polling_interval, channel, last_call, now, last_generate>>
    /\ last_start_all' = NoStartAll
    /\ last_stop_all' = DuringJoin
    /\ UNCHANGED <<start_time, last_op>>

\* an iteration of _polling_loop() in which read_all() raises: the simulated
\* branch calls generate_sensor_data() outside any try (the per-channel reads
\* of the other branch are each inside one), and the generator raises on
\* custom parameters it cannot unpack.  The lock is released as the exception
\* leaves the `with`; the loop's handler logs and calls time.sleep(1.0).
polling_loop_except(w) ==
    /\ wpc[w] = "read_all" /\ lock = NoThread
    /\ simulation_mode
    /\ wpc' = [wpc EXCEPT ![w] = "backoff"]
    /\ UNCHANGED <<sensors, always_failing, status, running, lock,
                   polling_thread, retry_counts, error_counts, auto_recover,
                   max_retries, simulation_mode, sim, cpc>>
    /\ last_read_all' = NoReadAll
    /\ last_recover' = NoRecover
    /\ ret' = NoReturn
    /\ UNCHANGED <<calls, faults>>
    /\ last_health' = NoHealth
    /\ UNCHANGED <<polling_interval, channel, last_call, now, last_generate>>
    /\ last_start_all' = NoStartAll
    /\ last_stop_all' = DuringJoin
    /\ UNCHANGED <<start_time, last_op>>

\* _should_recover() that compares the status with the enum's values
should_recover_by_value(name, retry, s) ==
    IF retry[name] >= max_retries THEN FALSE
    ELSE get_status(s[name]) \in {"error", "unavailable"}

\* _should_recover(): get_status() reports the enum's value and the code
\* compares it with the enum's member names
should_recover(name, retry, s) ==
    IF retry[name] >= max_retries THEN FALSE
    ELSE get_status(s[name]) \in {"ERROR", "UNAVAILABLE"}

\* one `if self._should_recover(...)` block of _check_and_recover()
recover_one(name, st, env) ==
    IF should_recover(name, st.retry_counts, st.sensors)
    THEN LET r == start_sensor(st.sensors[name], st.retry_counts[name],
                               env[name].hw, env[name].init)
         IN [sensors |-> [st.sensors EXCEPT ![name] = r.sensor],
             retry_counts |-> [st.retry_counts EXCEPT ![name] =
                                  IF r.ok THEN r.retry ELSE r.retry + 1],
             started |-> st.started \cup {name}]
    ELSE st

\* _check_and_recover(): the camera, then the microphone
check_and_recover(env) ==
    recover_one("microphone",
        recover_one("camera",
            [sensors |-> sensors, retry_counts |-> retry_counts, started |-> {}],
            env),
        env)

\* the channels whose recovery _check_and_recover() attempts
recovered_channels ==
    {c \in {"camera", "microphone"} : should_recover(c, retry_counts, sensors)}

\* the channels whose get_status() _check_and_recover() calls: _should_recover()
\* returns before the call for a channel that has used up its retries
queried_channels ==
    {c \in {"camera", "microphone"} : retry_counts[c] < max_retries}

\* `if self.auto_recover: self._check_and_recover()`, run without the lock
polling_loop_recover(w) ==
    /\ wpc[w] = "recover"
    /\ IF auto_recover
       THEN \E env \in StartEnvs(recovered_channels) :
              /\ \E r \in {check_and_recover(env)} :
                 /\ sensors' = r.sensors
                 /\ retry_counts' = r.retry_counts
                 /\ last_recover' = [called |-> TRUE, started |-> r.started]
       ELSE /\ last_recover' = NoRecover
            /\ UNCHANGED <<sensors, retry_counts>>
    /\ wpc' = [wpc EXCEPT ![w] = sleep_position]
    /\ UNCHANGED <<always_failing, status, running, lock, polling_thread,
                   error_counts, auto_recover, max_retries, simulation_mode,
                   sim, cpc>>
    /\ last_read_all' = NoReadAll
    /\ ret' = NoReturn
    /\ UNCHANGED <<calls, faults>>
    /\ last_health' = NoHealth
    /\ UNCHANGED <<polling_interval, channel, last_call, now, last_generate>>
    /\ last_start_all' = NoStartAll
    /\ last_stop_all' = DuringJoin
    /\ UNCHANGED <<start_time, last_op>>

\* ------------------------------------------------------------- get_health
\* the health score get_health() computes from the manager status, the
\* channels' reported status and the error counts
health_penalty_wraps(e) ==
    IF e > 0 THEN (HEALTH_ERROR_PENALTY * e) % HEALTH_ERROR_MAX_PENALTY ELSE 0

health_penalty(e) ==
    IF e > 0 THEN Min(HEALTH_ERROR_PENALTY * e, HEALTH_ERROR_MAX_PENALTY) ELSE 0

RECURSIVE health_sum(_, _, _)
health_sum(cs, s, errs) ==
    IF cs = {} THEN 0
    ELSE LET c == CHOOSE x \in cs : TRUE IN
         (IF get_status(s[c]) \notin {"ACTIVE", "MOCK_MODE"} THEN 20 ELSE 0)
         + health_penalty(errs[c])
         + health_sum(cs \ {c}, s, errs)

health_score_unclamped(st, s, errs) ==
    100 - (IF st # "running" THEN 50 ELSE 0) - health_sum(Channels, s, errs)

health_score(st, s, errs) ==
    Max(0, 100 - (IF st # "running" THEN 50 ELSE 0) - health_sum(Channels, s, errs))

\* get_health(): get_all_status() takes the lock for its snapshot
get_health(t) ==
    /\ cpc[t] = "idle" /\ lock = NoThread
    /\ calls < MaxCalls /\ calls' = calls + 1
    /\ last_health' = [called |-> TRUE,
                       health_score |-> health_score(status, sensors, error_counts)]
    /\ ret' = [NoReturn EXCEPT ![t] = "health"]
    /\ last_read_all' = NoReadAll
    /\ last_recover' = NoRecover
    /\ UNCHANGED <<sensors, always_failing, status, running, lock,
                   polling_thread, retry_counts, error_counts, auto_recover,
                   max_retries, simulation_mode, sim, wpc, cpc, faults>>
    /\ UNCHANGED <<polling_interval, channel, last_call, now, last_generate>>
    /\ last_start_all' = NoStartAll
    /\ last_stop_all' = NoStopAll
    /\ UNCHANGED <<start_time, last_op>>

\* --------------------------------------------- calls on a single BaseSensor
\* the manager's state, which a call on channel or on the generator leaves alone
manager_vars ==
    <<sensors, always_failing, status, running, lock, polling_thread,
      retry_counts, error_counts, auto_recover, max_retries, simulation_mode,
      wpc, cpc, calls, faults, ret, last_read_all, last_recover, start_time,
      last_op, last_start_all, last_stop_all, last_health, polling_interval>>

\* channel.start() with a hardware check answering hw and an initialize()
\* whose outcome is init
channel_start(hw, init) ==
    /\ \E r \in {sensor_start(control(channel), hw, init)} :
         /\ channel' = updated(channel, r.sensor, start_message(channel, r, init))
         /\ last_call' = [NoCall EXCEPT !.op = "start", !.before = channel,
                                        !.hw = hw, !.init = init, !.ok = r.ok,
                                        !.checked = r.checked,
                                        !.initialized = r.initialized]
    /\ UNCHANGED <<manager_vars, sim, now, last_generate>>

\* channel.stop() with a cleanup() whose outcome is cleanup
channel_stop(cleanup) ==
    /\ \E r \in {sensor_stop(control(channel), cleanup)} :
         /\ channel' = updated(channel, r.sensor, stop_message(channel, r, cleanup))
         /\ last_call' = [NoCall EXCEPT !.op = "stop", !.before = channel,
                                        !.cleanup = cleanup, !.ok = r.ok,
                                        !.cleaned = r.cleaned]
    /\ UNCHANGED <<manager_vars, sim, now, last_generate>>

\* channel.read() with a capture() whose outcome is cap; ok is FALSE when
\* read() raises SensorError
channel_read(cap) ==
    /\ \E r \in {sensor_read(control(channel), cap)} :
         /\ channel' = updated(channel, r.sensor, read_message(channel, r))
         /\ last_call' = [NoCall EXCEPT !.op = "read", !.before = channel,
                                        !.cap = cap, !.ok = r.ok,
                                        !.captured = r.captured,
                                        !.synthetic = r.synthetic,
                                        !.mock = r.mock]
    /\ UNCHANGED <<manager_vars, sim, now, last_generate>>

NextSensor ==
    \/ \E hw \in BOOLEAN : \E init \in InitializeOutcomes : channel_start(hw, init)
    \/ \E cleanup \in CleanupOutcomes : channel_stop(cleanup)
    \/ \E cap \in CaptureOutcomes : channel_read(cap)

\* ------------------------------------- calls on the SimulationController
\* the wall clock advances by ClockStep seconds
tick ==
    /\ now < MaxClock
    /\ now' = now + 1
    /\ last_generate' = NoGenerate
    /\ UNCHANGED <<manager_vars, sim, channel, last_call>>

\* SimulationController.start(scenario)
controller_start(scenario) ==
    /\ sim' = sim_start(scenario).sim
    /\ last_generate' = NoGenerate
    /\ UNCHANGED <<manager_vars, now, channel, last_call>>

\* SimulationController.stop()
controller_stop ==
    /\ sim' = sim_stop
    /\ last_generate' = NoGenerate
    /\ UNCHANGED <<manager_vars, now, channel, last_call>>

\* SimulationController.set_custom_parameters(params)
set_custom_parameters(params) ==
    /\ sim' = [sim EXCEPT !.custom_params = params]
    /\ last_generate' = NoGenerate
    /\ UNCHANGED <<manager_vars, now, channel, last_call>>

\* SimulationController.generate_sensor_data(): the phase is brought up to
\* date in the DYNAMIC scenario, then each value is sampled
controller_generate ==
    /\ \E sm \in {IF sim.current_scenario = "dynamic"
                   THEN update_dynamic_phase(sim) ELSE sim} :
         /\ sim' = sm
         /\ last_generate' =
               [called |-> TRUE, scenario |-> sm.current_scenario,
                dynamic_phase |-> sm.dynamic_phase,
                greenery |-> get_greenery_value(sm),
                noise |-> get_noise_value(sm),
                angry |-> IF sm.current_scenario = "custom"
                          THEN custom_angry(sm) ELSE 0]
    /\ UNCHANGED <<manager_vars, now, channel, last_call>>

NextGenerator ==
    \/ tick
    \/ \E scenario \in ControllerScenarioInputs : controller_start(scenario)
    \/ controller_stop
    \/ \E params \in CustomParameterInputs : set_custom_parameters(params)
    \/ controller_generate

\* ------------------------------------------------------------------- Next
NextWith(configs) ==
    \/ \E t \in Callers : start_all(t)
    \/ \E t \in Callers : start_all_spawn(t)
    \/ \E t \in Callers : stop_all(t)
    \/ \E t \in Callers : stop_all_join(t)
    \/ \E t \in Callers : \E scenario \in ScenarioInputs : start_simulation(t, scenario)
    \/ \E t \in Callers : start_simulation_spawn(t)
    \/ \E t \in Callers : stop_simulation(t)
    \/ \E t \in Callers : \E new_config \in configs :
         update_config(t, new_config.keys, new_config.polling_interval,
                       new_config.auto_recover, new_config.max_retries,
                       new_config.invalid)
    \/ \E t \in Callers : read_all(t)
    \/ \E t \in Callers : get_health(t)
    \/ \E w \in Workers : polling_loop_check(w)
    \/ \E w \in Workers : polling_loop_read_all(w)
    \/ \E w \in Workers : polling_loop_recover(w)

Next == NextWith(ConfigInputs)

\* the manager started, stopped and polling while update_config() is called
\* with values that cannot be converted
NextInvalidConfig ==
    \/ \E t \in Callers : start_all(t)
    \/ \E t \in Callers : start_all_spawn(t)
    \/ \E t \in Callers : stop_all(t)
    \/ \E t \in Callers : stop_all_join(t)
    \/ \E t \in Callers : \E new_config \in InvalidConfigInputs :
         update_config(t, new_config.keys, new_config.polling_interval,
                       new_config.auto_recover, new_config.max_retries,
                       new_config.invalid)
    \/ \E w \in Workers : polling_loop_check(w)
    \/ \E w \in Workers : polling_loop_read_all(w)
    \/ \E w \in Workers : polling_loop_recover(w)

\* the manager's lifecycle with a generator that can raise
NextLoop ==
    \/ \E t \in Callers : start_all(t)
    \/ \E t \in Callers : start_all_spawn(t)
    \/ \E t \in Callers : stop_all(t)
    \/ \E t \in Callers : stop_all_join(t)
    \/ \E t \in Callers : \E scenario \in ScenarioInputs : start_simulation(t, scenario)
    \/ \E t \in Callers : start_simulation_spawn(t)
    \/ \E t \in Callers : stop_simulation(t)
    \/ \E w \in Workers : polling_loop_check(w)
    \/ \E w \in Workers : polling_loop_read_all(w)
    \/ \E w \in Workers : polling_loop_except(w)
    \/ \E w \in Workers : polling_loop_recover(w)

\* the manager with update_config() called with any of its keys
NextConfig == NextWith(FullConfigInputs)

Spec == Init /\ [][Next]_vars

SpecConfig == Init /\ [][NextConfig]_vars

SpecLoop == Init /\ [][NextLoop]_vars

SpecInvalidConfig == Init /\ [][NextInvalidConfig]_vars

SpecFailing == InitFailing /\ [][Next]_vars

SpecForceMock == InitForceMock /\ [][Next]_vars

\* one BaseSensor called directly
SpecSensor == InitSensor /\ [][NextSensor]_vars

\* the SimulationController called directly while the clock runs
SpecGenerator == Init /\ [][NextGenerator]_vars

\* ================================================================ claims
\* a worker executes its recovery pass (`if self.auto_recover:` taken)
RecoveryPass(w) == wpc[w] = "recover" /\ wpc'[w] \in Sleeping /\ auto_recover

\* C1: start_simulation() called while the manager runs the real channels
\* completes; it never waits forever on the manager's lock.  Stated as: no
\* caller inside start_simulation() waits, in the nested stop_all(), for the
\* lock that it holds itself.
C1_StartSimulationCompletes ==
    \A t \in Callers : ~(cpc[t] = "start_simulation_stop_all" /\ lock = t)

\* C2: at most one polling worker of the manager is alive at any time, and
\* one is alive whenever the manager is running and no call is in progress.
C2_AtMostOneWorker ==
    /\ Cardinality(AliveWorkers) <= 1
    /\ (running /\ lock = NoThread) => Cardinality(AliveWorkers) >= 1

\* C3 as stated: in every reachable state, running implies that the polling
\* thread is alive and that the status is RUNNING.
C3_RunningImpliesPolling ==
    running => /\ polling_thread # NoThread
               /\ Alive(polling_thread)
               /\ status = "running"

\* C3 amended: in every reachable state in which the manager's lock is free,
\* running implies that the polling thread is alive and the status RUNNING.
C3_RunningImpliesPollingUnlocked ==
    (running /\ lock = NoThread) => /\ polling_thread # NoThread
                                    /\ Alive(polling_thread)
                                    /\ status = "running"

\* a running manager, no call in progress, whose worker is in its loop
C3_Witness ==
    /\ running /\ lock = NoThread
    /\ polling_thread # NoThread /\ wpc[polling_thread] = "recover"

\* C4: a recovery pass that finds a channel whose initialize() always fails
\* in ERROR or UNAVAILABLE raises its retry count by one while the count is
\* below max_retries, and once the count has reached max_retries leaves the
\* count alone and does not attempt start() on the channel.
C4_RetrySaturates ==
    [][\A w \in Workers : \A c \in always_failing :
         (RecoveryPass(w) /\ sensors[c].status \in {"error", "unavailable"})
            => IF retry_counts[c] < max_retries
               THEN retry_counts'[c] = retry_counts[c] + 1
               ELSE /\ retry_counts'[c] = retry_counts[c]
                    /\ c \notin last_recover'.started]_vars

\* C5: a recovery pass that finds a channel in ERROR or UNAVAILABLE with a
\* retry count below max_retries calls start() on it; a success resets the
\* retry count to 0 and a failure raises it by one.
C5_RecoveryAttempted ==
    [][\A w \in Workers : \A c \in Channels :
         (/\ RecoveryPass(w)
          /\ sensors[c].status \in {"error", "unavailable"}
          /\ retry_counts[c] < max_retries)
            => /\ c \in last_recover'.started
               /\ IF sensors'[c].status \in {"active", "mock_mode"}
                  THEN retry_counts'[c] = 0
                  ELSE retry_counts'[c] = retry_counts[c] + 1]_vars

\* C6: in every reachable state every channel's retry count is between 0 and
\* max_retries, also after update_config() has changed max_retries.
C6_RetryWithinBounds ==
    \A c \in Channels : 0 <= retry_counts[c] /\ retry_counts[c] <= max_retries

\* C7: get_health() returns 100, minus 50 if the status is not RUNNING, minus
\* 20 for each channel that is neither ACTIVE nor MOCK, minus
\* min(10 * error_count, 30) for each channel with errors, clamped to 0..100.
C7_HealthScoreFormula ==
    last_health.called =>
        LET down == {c \in Channels : sensors[c].status \notin {"active", "mock_mode"}}
            deduction(c) == IF error_counts[c] > 0
                            THEN Min(10 * error_counts[c], 30) ELSE 0
            raw == 100 - (IF status # "running" THEN 50 ELSE 0)
                       - 20 * Cardinality(down)
                       - deduction("camera") - deduction("microphone")
                       - deduction("air_quality")
        IN last_health.health_score = Max(0, Min(100, raw))

\* C8: the score get_health() returns is an integer between 0 and 100.
C8_HealthScoreInRange ==
    last_health.called =>
        /\ last_health.health_score \in Int
        /\ 0 <= last_health.health_score /\ last_health.health_score <= 100

\* get_health() has returned a score whose deductions exceed 100
C8_Witness ==
    /\ last_health.called
    /\ last_health.health_score = 0
    /\ \E c \in Channels : error_counts[c] > 0

\* C9: the score get_health() returns is non-increasing in each channel's
\* error count: with the status and the channels as get_health() found them,
\* raising one channel's error count by one, from any value, never raises
\* the score.
C9_HealthMonotone ==
    last_health.called =>
        \A c \in Channels : \A e \in 0..MaxErrorCount :
            health_score(status, sensors, [error_counts EXCEPT ![c] = e + 1])
                <= health_score(status, sensors, [error_counts EXCEPT ![c] = e])

\* get_health() has returned a score that one more error of a channel lowers
C9_Witness ==
    /\ last_health.called
    /\ \E c \in Channels :
         /\ error_counts[c] > 0
         /\ health_score(status, sensors, [error_counts EXCEPT ![c] = @ + 1])
               < last_health.health_score

\* C10: a read_all() made while simulation is active returns an envelope
\* tagged as simulated, every entry of which is tagged simulated, with an
\* empty error map, and calls read() on no channel.
C10_SimulatedEnvelope ==
    (last_read_all.called /\ simulation_mode) =>
        /\ last_read_all.envelope_simulation_mode
        /\ \A k \in DOMAIN last_read_all.data : last_read_all.data[k].simulation_mode
        /\ last_read_all.errors = {}
        /\ last_read_all.reads = {}

\* read_all() has returned the generator's entries while simulation is active
C10_Witness ==
    /\ last_read_all.called /\ simulation_mode
    /\ DOMAIN last_read_all.data = {"camera", "microphone", "emotion"}

\* C11: after start_simulation() followed by stop_simulation(), an explicit
\* start_all() restarts the real channels: the start_all() that returns then
\* has called start() on every channel and leaves each ACTIVE or MOCK_MODE.
C11_StartAllRestartsChannels ==
    [][(last_op = "stop_simulation" /\ last_start_all'.phase = "returned")
          => /\ last_start_all'.started = Channels
             /\ \A c \in Channels : sensors'[c].status \in {"active", "mock_mode"}]_vars

C13_ErrorCountTracksReads ==
    [][IF last_read_all'.called /\ ~last_read_all'.envelope_simulation_mode
       THEN \A c \in Channels :
              IF c \in DOMAIN last_read_all'.data
              THEN error_counts'[c] = 0 /\ c \in last_read_all'.stamped
              ELSE /\ error_counts'[c] = error_counts[c] + 1
                   /\ c \notin last_read_all'.stamped
       ELSE error_counts' = error_counts]_vars

\* a read_all() has failed on a channel for the second time in a row while
\* another channel's read succeeded
C13_Witness ==
    /\ last_read_all.called /\ ~last_read_all.envelope_simulation_mode
    /\ \E c \in last_read_all.errors : error_counts[c] = 2
    /\ \E c \in DOMAIN last_read_all.data : error_counts[c] = 0

\* the step is the first step of a start_all() called while not running
StartAllAttempt ==
    /\ last_start_all'.phase # "none"
    /\ ~last_start_all'.was_running
    /\ \A t \in Callers : cpc[t] = "idle"

\* C14: start_all() called while the running flag is set returns True, calls
\* start() on no channel, spawns no polling thread and leaves the status,
\* the start time, the channels and all counters unchanged.
C14_StartAllIdempotent ==
    [][(last_start_all'.phase # "none" /\ last_start_all'.was_running)
          => /\ \A t \in Callers : ret'[t] = "true"
             /\ last_start_all'.started = {}
             /\ UNCHANGED <<sensors, status, running, start_time, polling_thread,
                            wpc, retry_counts, error_counts>>]_vars

\* start_all() has returned from its already-running exit on a running manager
C14_Witness ==
    /\ last_start_all.phase = "returned" /\ last_start_all.was_running
    /\ running /\ status = "running"
    /\ \E t \in Callers : ret[t] = "true"

\* C15: a start_all() called while not running after which at least one
\* channel is ACTIVE or MOCK_MODE goes on to set running, and returns True
\* with the status RUNNING and running set; so it does when every channel
\* fell back to MOCK_MODE.
C15_StartAllReachesRunning ==
    [][(/\ last_start_all'.phase # "none"
        /\ ~last_start_all'.was_running
        /\ \E c \in Channels : sensors'[c].status \in {"active", "mock_mode"})
          => /\ running'
             /\ IF last_start_all'.phase = "entered"
                THEN \A t \in Callers : cpc'[t] = "start_all_spawn"
                ELSE /\ \A t \in Callers : ret'[t] = "true"
                     /\ status' = "running"]_vars

\* start_all() has returned True on a manager all of whose channels fell back
\* to MOCK_MODE
C15_Witness ==
    /\ last_start_all.phase = "returned" /\ ~last_start_all.was_running
    /\ \A t \in Callers : ret[t] = "true"
    /\ status = "running" /\ running
    /\ \A c \in Channels : sensors[c].status = "mock_mode"

\* C16: with every channel configured with mock_mode = True, after
\* start_all() the status is RUNNING and every read_all() with simulation
\* inactive returns every channel's entry marked mock and no error.
C16_ForcedMockReads ==
    (last_read_all.called /\ ~simulation_mode /\ last_op = "start_all") =>
        /\ status = "running"
        /\ last_read_all.errors = {}
        /\ DOMAIN last_read_all.data = Channels
        /\ \A c \in DOMAIN last_read_all.data : last_read_all.data[c].mock_mode

C18_StopAllStops ==
    [][last_stop_all'.phase = "returned"
          => /\ \A t \in Callers : ret'[t] = "true"
             /\ IF last_stop_all'.was_running
                THEN /\ status' = "stopped"
                     /\ ~running'
                     /\ start_time' = "none"
                     /\ last_stop_all'.stopped = Channels
                     /\ \A c \in last_stop_all'.clean :
                          sensors'[c].status = "inactive"
                ELSE UNCHANGED <<sensors, status, running, start_time,
                                 polling_thread, wpc, retry_counts,
                                 error_counts>>]_vars

\* stop_all() has returned from a running manager in which the stop() of one
\* channel failed and the others were stopped
C18_Witness ==
    /\ last_stop_all.phase = "returned" /\ last_stop_all.was_running
    /\ last_stop_all.clean # Channels
    /\ \E c \in last_stop_all.clean : \E d \in last_stop_all.clean :
         c # d /\ sensors[c].status = "inactive" /\ sensors[d].status = "inactive"
    /\ status = "stopped"

\* C19: if the polling thread is waiting between polls when stop_all()
\* clears the running flag, the thread has exited when stop_all() returns.
C19_IdleWorkerExitsOnStop ==
    (last_stop_all.phase = "returned" /\ last_stop_all.idle_at_clear)
        => ~Alive(polling_thread)

\* C20: start() called on a channel that is ACTIVE or MOCK_MODE returns True,
\* leaves the channel as it is, and calls neither check_hardware_available()
\* nor initialize() and does not set the start time.
C20_SensorStartIdempotent ==
    [][\A c \in last_start_all'.already :
         /\ sensors'[c] = sensors[c]
         /\ \A hw \in BOOLEAN : \A init \in InitializeOutcomes :
              LET r == sensor_start(sensors[c], hw, init) IN
              /\ r.ok
              /\ r.sensor = sensors[c]
              /\ ~r.checked /\ ~r.initialized /\ ~r.stamped]_vars

\* start_all() has called start() on a channel that was already running on
\* its hardware
C20_Witness ==
    /\ last_start_all.phase = "entered"
    /\ \E c \in last_start_all.already :
         sensors[c].status = "active" /\ ~sensors[c].mock_mode

\* the statuses from which start() goes through its start-up sequence
NotStarted == {"inactive", "error", "unavailable"}

\* C21: start() on a channel that is INACTIVE, ERROR or UNAVAILABLE returns
\* True and never fails for want of hardware: a channel configured with
\* mock_mode ends in MOCK_MODE without a call of initialize(), and so does,
\* with or without that call, a channel whose check_hardware_available() is
\* false or whose initialize() returns False or raises
\* SensorUnavailableError.
C21_StartFallsBackToMock ==
    /\ (last_call.op = "start" /\ last_call.before.status \in NotStarted) =>
          /\ last_call.ok
          /\ last_call.before.config_mock_mode =>
                channel.status = "mock_mode" /\ ~last_call.initialized
          /\ (~last_call.hw \/ last_call.init \in {"false", "unavailable"}) =>
                channel.status = "mock_mode"
    /\ \A st \in NotStarted : \A hw \in BOOLEAN : \A init \in InitializeOutcomes :
          LET r == sensor_start([control(channel) EXCEPT !.status = st], hw, init) IN
          /\ r.ok
          /\ channel.config_mock_mode =>
                r.sensor.status = "mock_mode" /\ ~r.initialized
          /\ (~hw \/ init \in {"false", "unavailable"}) =>
                r.sensor.status = "mock_mode"

\* start() has brought a channel that was in ERROR, and is not configured
\* with mock_mode, to MOCK_MODE because its initialize() raised
\* SensorUnavailableError
C21_Witness ==
    /\ last_call.op = "start" /\ last_call.before.status = "error"
    /\ ~last_call.before.mock_mode
    /\ last_call.hw /\ last_call.init = "unavailable" /\ last_call.initialized
    /\ last_call.ok /\ channel.status = "mock_mode"

\* C22: whatever the channel has been through, start() on a channel that is
\* INACTIVE, ERROR or UNAVAILABLE, whose configuration does not ask for
\* mock_mode, whose check_hardware_available() is true and whose
\* initialize() returns True, ends in ACTIVE.
C22_StartReachesActive ==
    (/\ last_call.op = "start" /\ last_call.before.status \in NotStarted
     /\ ~last_call.before.config_mock_mode
     /\ last_call.hw /\ last_call.init = "true")
        => channel.status = "active"

\* the statuses of a started channel
Started == {"active", "mock_mode"}

\* C23: stop() on an ACTIVE or MOCK_MODE channel whose cleanup() returns True
\* ends in INACTIVE and returns True; stop() on an INACTIVE channel returns
\* True, does not call cleanup() and changes nothing; and a stopped channel
\* can be started and stopped again: its next start() returns True and
\* leaves it ACTIVE or MOCK_MODE, and a stop() with a clean cleanup() then
\* leaves it INACTIVE.
C23_StopEndsInactive ==
    last_call.op = "stop" =>
        /\ (last_call.before.status \in Started /\ last_call.cleanup = "true") =>
              /\ channel.status = "inactive"
              /\ last_call.ok /\ last_call.cleaned
        /\ last_call.before.status = "inactive" =>
              /\ last_call.ok /\ ~last_call.cleaned
              /\ channel = last_call.before
        /\ channel.status = "inactive" =>
              \A hw \in BOOLEAN : \A init \in InitializeOutcomes :
                 LET r == sensor_start(control(channel), hw, init) IN
                 /\ r.ok /\ r.sensor.status \in Started
                 /\ sensor_stop(r.sensor, "true").ok
                 /\ sensor_stop(r.sensor, "true").sensor.status = "inactive"

\* stop() has ended a later cycle: the channel, ACTIVE again after an
\* earlier stop() whose cleanup() raised, is stopped and INACTIVE
C23_Witness ==
    /\ last_call.op = "stop" /\ last_call.cleanup = "true"
    /\ last_call.before.status = "active"
    /\ last_call.before.error_message = "stop"
    /\ last_call.ok /\ channel.status = "inactive"

\* C24: stop() on an ACTIVE or MOCK_MODE channel whose cleanup() returns
\* False moves the channel to ERROR and returns False.
C24_FailedCleanupIsError ==
    (/\ last_call.op = "stop" /\ last_call.before.status \in Started
     /\ last_call.cleanup = "false")
        => channel.status = "error" /\ ~last_call.ok


\* C25: read() on a channel that is INACTIVE, ERROR or UNAVAILABLE raises the
\* not-active error, calls neither capture() nor capture_mock_data(), and
\* leaves the status and the error message as they were.
C25_ReadNotStartedRaises ==
    /\ (last_call.op = "read" /\ last_call.before.status \in NotStarted)
           => /\ ~last_call.ok
              /\ ~last_call.captured
              /\ ~last_call.synthetic
              /\ channel.status = last_call.before.status
              /\ channel.error_message = last_call.before.error_message
    /\ \A st \in NotStarted : \A m \in BOOLEAN : \A msg \in ErrorMessages :
       \A cap \in CaptureOutcomes :
         \E ch \in {[status |-> st, mock_mode |-> m, error_message |-> msg,
                     config_mock_mode |-> m]} :
         \E r \in {sensor_read(control(ch), cap)} :
           /\ ~r.ok /\ ~r.captured /\ ~r.synthetic
           /\ updated(ch, r.sensor, read_message(ch, r)) = ch

C25_Witness ==
    /\ last_call.op = "read"
    /\ last_call.before.status = "error"
    /\ last_call.before.error_message = "capture"
    /\ last_call.cap = "ok"
    /\ ~last_call.ok
    /\ channel = last_call.before

\* C26: read() on an ACTIVE channel calls capture(): when capture() raises,
\* the channel becomes ERROR with the message recorded and read() raises;
\* when it returns, the channel stays ACTIVE and the data is tagged as not
\* synthetic.
C26_ReadActiveCaptures ==
    (last_call.op = "read" /\ last_call.before.status = "active")
        => /\ last_call.captured
           /\ ~last_call.synthetic
           /\ last_call.cap = "raise"
                  => /\ channel.status = "error"
                     /\ channel.error_message = "capture"
                     /\ ~last_call.ok
           /\ last_call.cap = "ok"
                  => /\ channel.status = "active"
                     /\ channel.error_message = last_call.before.error_message
                     /\ last_call.ok
                     /\ ~last_call.mock

C26_Witness ==
    /\ last_call.op = "read"
    /\ last_call.before.status = "active"
    /\ last_call.before.error_message = "none"
    /\ last_call.cap = "raise"
    /\ channel.status = "error"
    /\ channel.error_message = "capture"

\* C27: read() on a MOCK_MODE channel calls capture_mock_data() and never
\* capture(), tags the data as synthetic, and leaves the channel MOCK_MODE.
C27_ReadMockIsSynthetic ==
    (last_call.op = "read" /\ last_call.before.status = "mock_mode")
        => /\ last_call.synthetic
           /\ ~last_call.captured
           /\ last_call.ok
           /\ last_call.mock
           /\ channel = last_call.before

C27_Witness ==
    /\ last_call.op = "read"
    /\ last_call.before.status = "mock_mode"
    /\ ~last_call.before.config_mock_mode
    /\ last_call.cap = "raise"
    /\ last_call.synthetic
    /\ channel.status = "mock_mode"


C29_InvalidCustomRejected ==
    /\ \A range \in {sim.custom_params.greenery_range,
                     sim.custom_params.noise_range} :
           /\ range[1] <= range[2]
           /\ range[1] \in 0..100 /\ range[2] \in 0..100
    /\ \A p \in {sim.custom_params.emotion_happy,
                 sim.custom_params.emotion_neutral,
                 sim.custom_params.emotion_sad} : p \in 0..100
    /\ sim.custom_params.emotion_happy + sim.custom_params.emotion_neutral
           + sim.custom_params.emotion_sad <= 100
    /\ (last_generate.called /\ last_generate.scenario = "custom")
           => /\ last_generate.greenery[1] <= last_generate.greenery[2]
              /\ last_generate.greenery[1] >= 0
              /\ last_generate.greenery[2] <= 100 * Unit
              /\ last_generate.angry >= 0


\* C30: in the DYNAMIC scenario the base values of greenery and noise, before
\* jitter, move in opposite directions over the 120 s period.  Greenery is the
\* blend of the CALM and STRESS midpoints weighted by (sin(phase) + 1) / 2 and
\* noise the blend in the opposite sense; a quarter period after start() both
\* are at their CALM midpoints, three quarters after it both are at their
\* STRESS midpoints, and against any other sample time greenery is higher
\* exactly when noise is lower.
C30_DynamicOppositeDirections ==
    (/\ last_generate.called
     /\ last_generate.scenario = "dynamic"
     /\ sim.start_time # NoTime)
        => LET elapsed == (now - sim.start_time) * ClockStep
               greenery == last_generate.greenery[1]
               noise == last_generate.noise[1]
               wave == sin(last_generate.dynamic_phase)
           IN /\ last_generate.dynamic_phase * DynamicPeriod = elapsed * 360
              /\ last_generate.greenery[2] = greenery
              /\ last_generate.noise[2] = noise
              /\ elapsed % DynamicPeriod = DynamicPeriod \div 4
                     => /\ 2 * greenery = (60 + 90) * Unit
                        /\ 2 * noise = (20 + 40) * Unit
              /\ elapsed % DynamicPeriod = 3 * (DynamicPeriod \div 4)
                     => /\ 2 * greenery = (5 + 20) * Unit
                        /\ 2 * noise = (70 + 95) * Unit
              /\ 4 * SineUnit * greenery
                     = (60 + 90) * Unit * (SineUnit + wave)
                       + (5 + 20) * Unit * (SineUnit - wave)
              /\ 4 * SineUnit * noise
                     = (20 + 40) * Unit * (SineUnit + wave)
                       + (70 + 95) * Unit * (SineUnit - wave)
              /\ \A other \in 0..MaxClock :
                   LET phase == (other * ClockStep * 360) \div DynamicPeriod IN
                   /\ get_dynamic_greenery(phase) > greenery
                          <=> get_dynamic_noise(phase) < noise
                   /\ get_dynamic_greenery(phase) < greenery
                          <=> get_dynamic_noise(phase) > noise

\* a DYNAMIC sample taken three quarters of a period after a start() that
\* was not at time zero: both base values at their STRESS midpoints
C30_Witness ==
    /\ last_generate.called
    /\ last_generate.scenario = "dynamic"
    /\ sim.start_time > 0
    /\ (now - sim.start_time) * ClockStep = 3 * (DynamicPeriod \div 4)
    /\ 2 * last_generate.greenery[1] = 25 * Unit
    /\ 2 * last_generate.noise[1] = 165 * Unit


\* C31: start_simulation(scenario) with a valid scenario, called while the
\* manager is not running, makes the simulation active with that scenario,
\* creates exactly one polling thread, sets running and the status RUNNING,
\* returns True, and starts no channel: every channel is as it was.
C31_StartSimulationWhenStopped ==
    [][\A t \in Callers :
         /\ \A scenario \in ScenarioInputs \cap SimulationScenario :
              (~running /\ start_simulation(t, scenario))
                  => /\ cpc'[t] = "start_simulation_spawn"
                     /\ simulation_mode'
                     /\ sim'.active
                     /\ sim'.current_scenario = scenario
                     /\ running'
                     /\ sensors' = sensors
                     /\ wpc' = wpc
         /\ (cpc[t] = "start_simulation_spawn" /\ cpc'[t] = "idle")
                => /\ ret'[t] = "true"
                   /\ running' /\ status' = "running"
                   /\ simulation_mode' /\ sim'.active
                   /\ sensors' = sensors
                   /\ polling_thread' \notin AliveWorkers
                   /\ AliveWorkers' = AliveWorkers \cup {polling_thread'}]_vars

\* the first call made on a new manager was start_simulation("dynamic"): it
\* has returned True, one worker is alive and no channel has been started
C31_Witness ==
    /\ calls = 1
    /\ ret[ApiThread] = "true"
    /\ last_op = "start_simulation"
    /\ simulation_mode /\ sim.active /\ sim.current_scenario = "dynamic"
    /\ running /\ status = "running"
    /\ AliveWorkers = {polling_thread}
    /\ \A c \in Channels : sensors[c].status = "inactive"


\* C32: start_simulation(scenario) called while the simulation is active
\* switches to the new scenario and returns True, touches no channel and
\* creates no second polling thread: it creates none while the manager runs,
\* and none next to a thread that is still alive.  stop_simulation() called
\* while the simulation is not active returns True and changes nothing.
C32_StartSimulationWhenActive ==
    [][\A t \in Callers :
         /\ \A scenario \in ScenarioInputs \cap SimulationScenario :
              (simulation_mode /\ start_simulation(t, scenario))
                  => /\ sim'.current_scenario = scenario
                     /\ simulation_mode' /\ sim'.active
                     /\ sensors' = sensors
                     /\ wpc' = wpc /\ polling_thread' = polling_thread
                     /\ running => (ret'[t] = "true" /\ cpc'[t] = "idle")
                     /\ cpc'[t] = "start_simulation_spawn" => AliveWorkers = {}
         /\ (~simulation_mode /\ stop_simulation(t))
                => /\ ret'[t] = "true"
                   /\ UNCHANGED <<simulation_mode, sim, sensors, status, running,
                                  polling_thread, wpc, retry_counts,
                                  error_counts>>]_vars


\* C33: start_simulation(scenario) with a name that is not a scenario returns
\* False and leaves the simulation flag, the active scenario, the running
\* flag, the status and every channel as they were before the call.
C33_InvalidScenarioRejected ==
    [][\A t \in Callers : \A scenario \in ScenarioInputs \ SimulationScenario :
         start_simulation(t, scenario)
             => /\ ret'[t] = "false"
                /\ cpc'[t] = "idle"
                /\ UNCHANGED <<simulation_mode, sim, running, status, sensors>>]_vars


\* C34: no two threads are inside methods of one channel at the same time:
\* a polling thread calls a channel's read(), start() or get_status() only
\* under the manager's lock.  Stated as: the step in which a polling thread
\* reads the channels, and the step in which its recovery pass queries or
\* starts one, are taken while no other thread holds the lock.
C34_ChannelCallsUnderLock ==
    [][\A w \in Workers :
         /\ (wpc[w] = "read_all" /\ wpc'[w] = "recover") => lock = NoThread
         /\ (RecoveryPass(w) /\ queried_channels # {}) => lock = NoThread]_vars


C36_WorkerSurvivesExceptions ==
    [][\A w \in Workers :
         /\ polling_loop_except(w) => wpc'[w] = "backoff"
         /\ (wpc[w] = "backoff" /\ wpc'[w] # "backoff")
                => wpc'[w] = IF running THEN "read_all" ELSE "done"
         /\ (Alive(w) /\ wpc'[w] = "done")
                => /\ ~running
                   /\ wpc[w] \in {"check"} \cup Sleeping]_vars

\* the manager's polling thread is backing off after an exception while the
\* running flag is set
C36_Witness ==
    /\ running /\ status = "running"
    /\ polling_thread \in Workers
    /\ wpc[polling_thread] = "backoff"


\* C37: while the simulation is active the envelope read_all() returns has an
\* entry for every channel the manager owns (camera, microphone and air
\* quality), each produced by the generator.
C37_SimulatedEnvelopeComplete ==
    (last_read_all.called /\ last_read_all.envelope_simulation_mode)
        => /\ Channels \subseteq DOMAIN last_read_all.data
           /\ \A c \in Channels \cap DOMAIN last_read_all.data :
                last_read_all.data[c].simulation_mode


\* C38: live and synthetic operation are never mixed: in every reachable
\* state where the simulation is active no channel is ACTIVE or MOCK_MODE,
\* whatever sequence of start_all(), stop_all(), start_simulation() and
\* stop_simulation() led there.
C38_NoLiveChannelInSimulation ==
    simulation_mode => \A c \in Channels : sensors[c].status \notin Started


\* C39: update_config(partial) is all-or-nothing: when it returns False
\* because a value cannot be converted, none of polling_interval,
\* auto_recover and max_retries has changed, whatever valid keys the
\* dictionary also held.
C39_UpdateConfigAllOrNothing ==
    [][\A t \in Callers : \A c \in InvalidConfigInputs :
         (/\ update_config(t, c.keys, c.polling_interval, c.auto_recover,
                           c.max_retries, c.invalid)
          /\ ret'[t] = "false")
             => UNCHANGED <<polling_interval, auto_recover, max_retries>>]_vars

====
